---- MODULE Spec2Model ----
(***************************************************************************)
(* State-machine model of Watch/src/main.cpp: the T-Watch S3 firmware      *)
(* entry point.  setup() runs once, statement by statement; the Arduino    *)
(* core then calls loop() again and again.  Every statement of the file is *)
(* one action; pc is the single thread's position.                         *)
(*                                                                         *)
(* Text is a sequence of one-character strings.  The static buffer buf is  *)
(* an array of BufSize bytes, NUL marking the C string terminator.         *)
(***************************************************************************)
EXTENDS Integers, Sequences, FiniteSets, TLC

VARIABLES
    pc,           \* position of the single thread of control
    serial,       \* lines written with Serial.println, in order
    beginOk,      \* the value watch.begin() returned (FALSE until it is called)
    psram,        \* hardware: psramFound() answers TRUE
    hasMotor,     \* hardware: watch.motor is a non-null handle
    motorPulses,  \* durations passed to watch.motor->onec, in order
    screen,       \* children of lv_scr_act(): sequence of label objects
    clock_label,  \* global lv_obj_t* clock_label: 0 is NULL, else index in screen
    now,          \* local RTC_Date now of loop() (read only after LoopRead set it)
    buf,          \* static char buf[16] of loop()
    lastDelayMs,  \* argument of the most recent delay() call (0: none yet)
    iterSteps,    \* statements of loop() executed in the current call of loop()
    calls         \* per statement: how many times it was executed (saturating)

vars == <<pc, serial, beginOk, psram, hasMotor, motorPulses, screen, clock_label,
          now, buf, lastDelayMs, iterSteps, calls>>

----------------------------------------------------------------------------
(* Bounds of the model *)

\* Call counters stop counting at MaxCalls (the loop itself never stops).
MaxCalls == 3

(* Program constants *)

BufSize == 16
MotorPulseMs == 30
StallDelayMs == 100
LoopDelayMs == 1000

NUL == "NUL"
BootLine == "T-Watch S3 (PlatformIO) boot"
FailLine == "watch.begin() failed"
PsramLine == "PSRAM OK"
ClockFont == "lv_font_montserrat_28"
DefaultFont == "LV_FONT_DEFAULT"
Placeholder == <<"S", "t", "a", "r", "t", "i", "n", "g", "ELLIPSIS">>
\* lv_label_create gives a new label LVGL's default text
DefaultText == <<"T", "e", "x", "t">>

Sites == {"begin", "log_fail", "delay100", "psram_log", "onec", "clean", "create",
          "font", "center", "placeholder", "getDateTime", "snprintf", "set_text",
          "lv_timer_handler", "delay1000"}

LoopOrder == <<"getDateTime", "snprintf", "set_text", "lv_timer_handler", "delay1000">>

Date(h, m, s) == [hour |-> h, minute |-> m, second |-> s]

\* Readings the RTC peripheral may return in the main specification: in-range
\* times, and malformed ones (the code validates nothing).
RTCDates == {Date(0, 5, 9), Date(23, 59, 59), Date(12, 0, 30),
             Date(100, 5, 9), Date(7, 255, 1), Date(-1, 0, 0), Date(3, 4, -12),
             Date(99, 60, 61), Date(100000, 100000, 100000)}

\* The natural ranges of the RTC fields.
ValidDates == {Date(h, m, s) : h \in 0..23, m \in 0..59, s \in 0..59}

----------------------------------------------------------------------------
(* printf-style formatting *)

DigitChars == <<"0", "1", "2", "3", "4", "5", "6", "7", "8", "9">>
Digit(d) == DigitChars[d + 1]

RECURSIVE ToDecimal(_)
ToDecimal(n) == IF n < 10 THEN <<Digit(n)>>
                ELSE ToDecimal(n \div 10) \o <<Digit(n % 10)>>

Zeros(k) == [i \in 1..k |-> "0"]

\* Mutant: "%2d", the field is padded with spaces instead of zeros.
Fmt2dSpace(v) ==
    LET sign   == IF v < 0 THEN <<"-">> ELSE <<>>
        digits == ToDecimal(IF v < 0 THEN -v ELSE v)
        used   == Len(sign) + Len(digits)
        pad    == IF used < 2 THEN 2 - used ELSE 0
    IN [i \in 1..pad |-> " "] \o sign \o digits

\* "%02d": sign, then zeros up to a MINIMUM field width of 2, then the digits.
\* A value that needs more than two characters is printed in full.
Fmt02d(v) ==
    LET sign   == IF v < 0 THEN <<"-">> ELSE <<>>
        digits == ToDecimal(IF v < 0 THEN -v ELSE v)
        used   == Len(sign) + Len(digits)
        pad    == IF used < 2 THEN 2 - used ELSE 0
    IN sign \o Zeros(pad) \o digits

\* The expansion of "%02d:%02d:%02d" for a date.
FormatTime(d) == Fmt02d(d.hour) \o <<":">> \o Fmt02d(d.minute) \o <<":">>
                 \o Fmt02d(d.second)

\* snprintf(b, size, ...) for an expansion s: at most size-1 characters are
\* stored, then a terminating NUL; the bytes after it keep their old value.
Snprintf(b, size, s) ==
    LET n == IF Len(s) < size - 1 THEN Len(s) ELSE size - 1
    IN [i \in 1..size |-> IF i <= n THEN s[i] ELSE IF i = n + 1 THEN NUL ELSE b[i]]

\* The C string held in an array: the bytes before the first NUL.
CStr(b) ==
    LET nuls == {i \in 1..Len(b) : b[i] = NUL}
    IN IF nuls = {} THEN b
       ELSE SubSeq(b, 1, (CHOOSE i \in nuls : \A j \in nuls : i <= j) - 1)

Bump(c, site) == [c EXCEPT ![site] = IF @ < MaxCalls THEN @ + 1 ELSE @]

NewLabel == [text |-> DefaultText, font |-> DefaultFont, centered |-> FALSE]

----------------------------------------------------------------------------
(* Initial state: globals zero-initialised, nothing executed yet *)

Init ==
    /\ pc = "boot"
    /\ serial = <<>>
    /\ beginOk = FALSE
    /\ psram \in BOOLEAN
    /\ hasMotor \in BOOLEAN
    /\ motorPulses = <<>>
    /\ screen = <<>>
    /\ clock_label = 0
    /\ now = Date(0, 0, 0)
    /\ buf = [i \in 1..BufSize |-> NUL]
    /\ lastDelayMs = 0
    /\ iterSteps = <<>>
    /\ calls = [s \in Sites |-> 0]

----------------------------------------------------------------------------
(* setup() *)

\* Serial.begin(115200); Serial.println("T-Watch S3 (PlatformIO) boot");
SerialBoot ==
    /\ pc = "boot"
    /\ serial' = Append(serial, BootLine)
    /\ pc' = "begin"
    /\ UNCHANGED <<beginOk, psram, hasMotor, motorPulses, screen, clock_label,
                   now, buf, lastDelayMs, iterSteps, calls>>

\* Mutant: the failure of watch.begin() is ignored and setup() carries on.
WatchBeginUnchecked ==
    /\ pc = "begin"
    /\ \E ok \in BOOLEAN :
          /\ beginOk' = ok
          /\ pc' = "psram"
    /\ calls' = Bump(calls, "begin")
    /\ UNCHANGED <<serial, psram, hasMotor, motorPulses, screen, clock_label,
                   now, buf, lastDelayMs, iterSteps>>

\* if (!watch.begin()) ...: the hardware decides the result.
WatchBegin ==
    /\ pc = "begin"
    /\ \E ok \in BOOLEAN :
          /\ beginOk' = ok
          /\ pc' = IF ok THEN "psram" ELSE "fail_log"
    /\ calls' = Bump(calls, "begin")
    /\ UNCHANGED <<serial, psram, hasMotor, motorPulses, screen, clock_label,
                   now, buf, lastDelayMs, iterSteps>>

\* Serial.println("watch.begin() failed");
LogFailure ==
    /\ pc = "fail_log"
    /\ serial' = Append(serial, FailLine)
    /\ calls' = Bump(calls, "log_fail")
    /\ pc' = "stall"
    /\ UNCHANGED <<beginOk, psram, hasMotor, motorPulses, screen, clock_label,
                   now, buf, lastDelayMs, iterSteps>>

\* Mutant: the stall loop retries the initialisation after each delay.
StallRetry ==
    /\ pc = "stall"
    /\ lastDelayMs' = StallDelayMs
    /\ calls' = Bump(calls, "delay100")
    /\ pc' = "begin"
    /\ UNCHANGED <<serial, beginOk, psram, hasMotor, motorPulses, screen,
                   clock_label, now, buf, iterSteps>>

\* while (true) delay(100);   one turn of the stall loop
Stall ==
    /\ pc = "stall"
    /\ lastDelayMs' = StallDelayMs
    /\ calls' = Bump(calls, "delay100")
    /\ pc' = "stall"
    /\ UNCHANGED <<serial, beginOk, psram, hasMotor, motorPulses, screen,
                   clock_label, now, buf, iterSteps>>

\* Mutant: missing PSRAM is treated as fatal.
PsramCheckFatal ==
    /\ pc = "psram"
    /\ serial' = IF psram THEN Append(serial, PsramLine) ELSE serial
    /\ calls' = IF psram THEN Bump(calls, "psram_log") ELSE calls
    /\ pc' = IF psram THEN "motor" ELSE "stall"
    /\ UNCHANGED <<beginOk, psram, hasMotor, motorPulses, screen, clock_label,
                   now, buf, lastDelayMs, iterSteps>>

\* if (psramFound()) Serial.println("PSRAM OK");
PsramCheck ==
    /\ pc = "psram"
    /\ serial' = IF psram THEN Append(serial, PsramLine) ELSE serial
    /\ calls' = IF psram THEN Bump(calls, "psram_log") ELSE calls
    /\ pc' = "motor"
    /\ UNCHANGED <<beginOk, psram, hasMotor, motorPulses, screen, clock_label,
                   now, buf, lastDelayMs, iterSteps>>

\* Mutant: the motor is pulsed without the capability check.
MotorPulseUnchecked ==
    /\ pc = "motor"
    /\ motorPulses' = Append(motorPulses, MotorPulseMs)
    /\ calls' = Bump(calls, "onec")
    /\ pc' = "clean"
    /\ UNCHANGED <<serial, beginOk, psram, hasMotor, screen, clock_label,
                   now, buf, lastDelayMs, iterSteps>>

\* if (watch.motor) watch.motor->onec(30);
MotorPulse ==
    /\ pc = "motor"
    /\ motorPulses' = IF hasMotor THEN Append(motorPulses, MotorPulseMs)
                      ELSE motorPulses
    /\ calls' = IF hasMotor THEN Bump(calls, "onec") ELSE calls
    /\ pc' = "clean"
    /\ UNCHANGED <<serial, beginOk, psram, hasMotor, screen, clock_label,
                   now, buf, lastDelayMs, iterSteps>>

\* lv_obj_clean(lv_scr_act());   deletes every child of the active screen
ScreenClean ==
    /\ pc = "clean"
    /\ screen' = <<>>
    /\ calls' = Bump(calls, "clean")
    /\ pc' = "create"
    /\ UNCHANGED <<serial, beginOk, psram, hasMotor, motorPulses, clock_label,
                   now, buf, lastDelayMs, iterSteps>>

\* clock_label = lv_label_create(lv_scr_act());
LabelCreate ==
    /\ pc = "create"
    /\ screen' = Append(screen, NewLabel)
    /\ clock_label' = Len(screen) + 1
    /\ calls' = Bump(calls, "create")
    /\ pc' = "font"
    /\ UNCHANGED <<serial, beginOk, psram, hasMotor, motorPulses,
                   now, buf, lastDelayMs, iterSteps>>

\* lv_obj_set_style_text_font(clock_label, &lv_font_montserrat_28, 0);
SetFont ==
    /\ pc = "font"
    /\ screen' = [screen EXCEPT ![clock_label].font = ClockFont]
    /\ calls' = Bump(calls, "font")
    /\ pc' = "center"
    /\ UNCHANGED <<serial, beginOk, psram, hasMotor, motorPulses, clock_label,
                   now, buf, lastDelayMs, iterSteps>>

\* lv_obj_center(clock_label);
Center ==
    /\ pc = "center"
    /\ screen' = [screen EXCEPT ![clock_label].centered = TRUE]
    /\ calls' = Bump(calls, "center")
    /\ pc' = "placeholder"
    /\ UNCHANGED <<serial, beginOk, psram, hasMotor, motorPulses, clock_label,
                   now, buf, lastDelayMs, iterSteps>>

\* lv_label_set_text(clock_label, "Starting...");  setup() then returns and the
\* Arduino core makes its first call of loop().
SetPlaceholder ==
    /\ pc = "placeholder"
    /\ screen' = [screen EXCEPT ![clock_label].text = Placeholder]
    /\ calls' = Bump(calls, "placeholder")
    /\ pc' = "loop_read"
    /\ UNCHANGED <<serial, beginOk, psram, hasMotor, motorPulses, clock_label,
                   now, buf, lastDelayMs, iterSteps>>

----------------------------------------------------------------------------
(* loop(), called again by the Arduino core each time it returns *)

\* RTC_Date now = watch.rtc->getDateTime();   the peripheral returns one of dates
LoopRead(dates) ==
    /\ pc = "loop_read"
    /\ \E d \in dates : now' = d
    /\ iterSteps' = <<"getDateTime">>
    /\ calls' = Bump(calls, "getDateTime")
    /\ pc' = "loop_format"
    /\ UNCHANGED <<serial, beginOk, psram, hasMotor, motorPulses, screen,
                   clock_label, buf, lastDelayMs>>

\* Mutant: sprintf instead of snprintf, the expansion is stored whole.
LoopFormatUnbounded ==
    /\ pc = "loop_format"
    /\ buf' = LET s == FormatTime(now)
              IN [i \in 1..BufSize |-> IF i <= Len(s) THEN s[i]
                                       ELSE IF i = Len(s) + 1 THEN NUL ELSE buf[i]]
    /\ iterSteps' = Append(iterSteps, "snprintf")
    /\ calls' = Bump(calls, "snprintf")
    /\ pc' = "loop_set_text"
    /\ UNCHANGED <<serial, beginOk, psram, hasMotor, motorPulses, screen,
                   clock_label, now, lastDelayMs>>

\* snprintf(buf, sizeof(buf), "%02d:%02d:%02d", now.hour, now.minute, now.second);
LoopFormat ==
    /\ pc = "loop_format"
    /\ buf' = Snprintf(buf, BufSize, FormatTime(now))
    /\ iterSteps' = Append(iterSteps, "snprintf")
    /\ calls' = Bump(calls, "snprintf")
    /\ pc' = "loop_set_text"
    /\ UNCHANGED <<serial, beginOk, psram, hasMotor, motorPulses, screen,
                   clock_label, now, lastDelayMs>>

\* Mutant: the new text is appended to the label's text.
LoopSetTextAppend ==
    /\ pc = "loop_set_text"
    /\ screen' = [screen EXCEPT ![clock_label].text = @ \o CStr(buf)]
    /\ iterSteps' = Append(iterSteps, "set_text")
    /\ calls' = Bump(calls, "set_text")
    /\ pc' = "loop_tick"
    /\ UNCHANGED <<serial, beginOk, psram, hasMotor, motorPulses, clock_label,
                   now, buf, lastDelayMs>>

\* Mutant: every update makes a fresh label and shows the text in it.
LoopSetTextNewLabel ==
    /\ pc = "loop_set_text"
    /\ screen' = Append(screen, [NewLabel EXCEPT !.text = CStr(buf)])
    /\ clock_label' = Len(screen) + 1
    /\ iterSteps' = Append(iterSteps, "set_text")
    /\ calls' = Bump(calls, "set_text")
    /\ pc' = "loop_tick"
    /\ UNCHANGED <<serial, beginOk, psram, hasMotor, motorPulses,
                   now, buf, lastDelayMs>>

\* lv_label_set_text(clock_label, buf);   the label keeps its own copy of the
\* C string in buf, in place of its previous text
LoopSetText ==
    /\ pc = "loop_set_text"
    /\ screen' = [screen EXCEPT ![clock_label].text = CStr(buf)]
    /\ iterSteps' = Append(iterSteps, "set_text")
    /\ calls' = Bump(calls, "set_text")
    /\ pc' = "loop_tick"
    /\ UNCHANGED <<serial, beginOk, psram, hasMotor, motorPulses, clock_label,
                   now, buf, lastDelayMs>>

\* Mutant: loop() returns after the tick, without sleeping.
LoopTickNoSleep ==
    /\ pc = "loop_tick"
    /\ iterSteps' = Append(iterSteps, "lv_timer_handler")
    /\ calls' = Bump(calls, "lv_timer_handler")
    /\ pc' = "loop_read"
    /\ UNCHANGED <<serial, beginOk, psram, hasMotor, motorPulses, screen,
                   clock_label, now, buf, lastDelayMs>>

\* lv_timer_handler();   redraw and timers are the library's own state
LoopTick ==
    /\ pc = "loop_tick"
    /\ iterSteps' = Append(iterSteps, "lv_timer_handler")
    /\ calls' = Bump(calls, "lv_timer_handler")
    /\ pc' = "loop_delay"
    /\ UNCHANGED <<serial, beginOk, psram, hasMotor, motorPulses, screen,
                   clock_label, now, buf, lastDelayMs>>

\* Mutant: after the sleep the program leaves the loop for good.
LoopDelayExit ==
    /\ pc = "loop_delay"
    /\ lastDelayMs' = LoopDelayMs
    /\ iterSteps' = Append(iterSteps, "delay1000")
    /\ calls' = Bump(calls, "delay1000")
    /\ pc' = "exit"
    /\ UNCHANGED <<serial, beginOk, psram, hasMotor, motorPulses, screen,
                   clock_label, now, buf>>

\* delay(1000);   loop() then returns and is called again
LoopDelay ==
    /\ pc = "loop_delay"
    /\ lastDelayMs' = LoopDelayMs
    /\ iterSteps' = Append(iterSteps, "delay1000")
    /\ calls' = Bump(calls, "delay1000")
    /\ pc' = "loop_read"
    /\ UNCHANGED <<serial, beginOk, psram, hasMotor, motorPulses, screen,
                   clock_label, now, buf>>

----------------------------------------------------------------------------
(* Specifications *)

Setup ==
    \/ SerialBoot
    \/ WatchBegin
    \/ LogFailure
    \/ Stall
    \/ PsramCheck
    \/ MotorPulse
    \/ ScreenClean
    \/ LabelCreate
    \/ SetFont
    \/ Center
    \/ SetPlaceholder

Next ==
    \/ Setup
    \/ LoopRead(RTCDates)
    \/ LoopFormat
    \/ LoopSetText
    \/ LoopTick
    \/ LoopDelay

Spec == Init /\ [][Next]_vars

\* One thread of control: the statement at pc is eventually executed (every
\* call, delay() and lv_timer_handler() included, returns).
LiveSpec == Spec /\ WF_vars(Next)

\* The formatting step on every in-range reading.  The initial states are the
\* states of the T-Watch S3 (PSRAM and motor present) right after the first
\* call of loop() has read an in-range date; the RTC then keeps answering
\* that same date, so the same triple is formatted again and again over the
\* buffer's previous contents.
FormatInit ==
    /\ pc = "loop_format"
    /\ serial = <<BootLine, PsramLine>>
    /\ beginOk = TRUE
    /\ psram = TRUE
    /\ hasMotor = TRUE
    /\ motorPulses = <<MotorPulseMs>>
    /\ screen = <<[text |-> Placeholder, font |-> ClockFont, centered |-> TRUE]>>
    /\ clock_label = 1
    /\ now \in ValidDates
    /\ buf = [i \in 1..BufSize |-> NUL]
    /\ lastDelayMs = 0
    /\ iterSteps = <<"getDateTime">>
    /\ calls = [s \in Sites |->
                  IF s \in {"begin", "psram_log", "onec", "clean", "create", "font",
                            "center", "placeholder", "getDateTime"}
                  THEN 1 ELSE 0]

FormatNext ==
    \/ LoopRead({now})
    \/ LoopFormat
    \/ LoopSetText
    \/ LoopTick
    \/ LoopDelay

FormatSpec == FormatInit /\ [][FormatNext]_vars

----------------------------------------------------------------------------
(* Vocabulary of the properties *)

LoopPcs == {"loop_read", "loop_format", "loop_set_text", "loop_tick", "loop_delay"}
InLoop == pc \in LoopPcs
StallPcs == {"fail_log", "stall"}
DisplaySites == {"clean", "create", "font", "center", "placeholder"}
LoopSites == {LoopOrder[k] : k \in 1..Len(LoopOrder)}

BeginFailed == calls["begin"] > 0 /\ ~beginOk

Min(a, b) == IF a < b THEN a ELSE b
Take(s, n) == SubSeq(s, 1, Min(Len(s), n))

\* What the clock is meant to show: two decimal digits per field.
TwoDigits(v) == <<Digit(v \div 10), Digit(v % 10)>>
HHMMSS(d) == TwoDigits(d.hour) \o <<":">> \o TwoDigits(d.minute) \o <<":">>
             \o TwoDigits(d.second)

DigitSet == {DigitChars[i] : i \in 1..10}
IsHHMMSS(s) ==
    /\ Len(s) = 8
    /\ s[3] = ":" /\ s[6] = ":"
    /\ \A i \in {1, 2, 4, 5, 7, 8} : s[i] \in DigitSet

NullTerminated(b) == \E i \in 1..BufSize : b[i] = NUL

\* Every field fits two decimal digits.
TwoDigitDate(d) == d.hour \in 0..99 /\ d.minute \in 0..99 /\ d.second \in 0..99

\* Every field is a value an unsigned 8-bit field can hold.
ByteDate(d) == d.hour \in 0..255 /\ d.minute \in 0..255 /\ d.second \in 0..255

\* buf holds the formatting of the current value of now.
BufIsOfNow == pc \in {"loop_set_text", "loop_tick", "loop_delay"}
              \/ (pc = "loop_read" /\ calls["snprintf"] > 0)

----------------------------------------------------------------------------
(* Properties *)

\* C1: once watch.begin() has reported failure, no display-construction
\* statement (screen clean, label creation, font, centering, placeholder) has
\* run and no statement of loop() has run, in that state and ever after: the
\* program is at the failure log or in the stall loop.
C1_FailedInitBuildsNothing ==
    BeginFailed =>
        /\ pc \in StallPcs
        /\ \A s \in DisplaySites \cup LoopSites : calls[s] = 0
        /\ screen = <<>> /\ clock_label = 0
        /\ iterSteps = <<>>
        /\ buf = [i \in 1..BufSize |-> NUL]

C1_Witness == BeginFailed /\ pc = "stall" /\ calls["delay100"] >= 2

\* C2: for every in-range (hour, minute, second) the formatting step leaves in
\* buf a C string of exactly 8 characters, HH:MM:SS, each field the
\* zero-padded two-digit decimal of its value ((0,5,9) gives 00:05:09 and
\* (23,59,59) gives 23:59:59); formatting the same triple again, over the
\* buffer's previous contents, gives the same string.
C2_FormatInRange ==
    (calls["snprintf"] > 0 /\ now \in ValidDates) =>
        /\ Len(CStr(buf)) = 8
        /\ IsHHMMSS(CStr(buf))
        /\ CStr(buf) = HHMMSS(now)
        /\ now = Date(0, 5, 9) =>
              CStr(buf) = <<"0", "0", ":", "0", "5", ":", "0", "9">>
        /\ now = Date(23, 59, 59) =>
              CStr(buf) = <<"2", "3", ":", "5", "9", ":", "5", "9">>

C2_Witness ==
    /\ calls["snprintf"] >= 2
    /\ pc = "loop_set_text"
    /\ now = Date(0, 5, 9)
    /\ CStr(buf) = <<"0", "0", ":", "0", "5", ":", "0", "9">>

\* C3: in every call of loop() the five statements run once each, in the order
\* RTC read, format, label update, graphics tick, 1000 ms sleep; so at the top
\* of loop() each of the five has run exactly as often as the sleep, and inside
\* a call the ones already passed have run exactly once more.  (Counts are
\* compared up to MaxCalls, where the counters stop.)
C3_OneOfEachPerIteration ==
    InLoop =>
        LET n == calls["delay1000"]
            k == CASE pc = "loop_read" -> 0
                   [] pc = "loop_format" -> 1
                   [] pc = "loop_set_text" -> 2
                   [] pc = "loop_tick" -> 3
                   [] pc = "loop_delay" -> 4
        IN /\ iterSteps = IF pc = "loop_read" /\ n > 0 THEN LoopOrder
                          ELSE SubSeq(LoopOrder, 1, k)
           /\ \A i \in 1..5 :
                 calls[LoopOrder[i]] = Min(n + (IF i <= k THEN 1 ELSE 0), MaxCalls)
           /\ lastDelayMs = IF n > 0 THEN LoopDelayMs ELSE 0

C3_Witness ==
    /\ pc = "loop_read"
    /\ iterSteps = LoopOrder
    /\ \A i \in 1..5 : calls[LoopOrder[i]] = 2
    /\ lastDelayMs = LoopDelayMs

\* C4: the refresh loop runs forever.  No step leaves the loop, a successful
\* initialisation leads into it, and from every state of the loop the sleep
\* of the current iteration and the start of the next one are reached.
C4_LoopRunsForever ==
    /\ [][InLoop => InLoop']_vars
    /\ [](beginOk => <>InLoop)
    /\ [](InLoop => <>(pc = "loop_delay"))
    /\ [](InLoop => <>(pc = "loop_read" /\ calls["delay1000"] > 0))

C4_Witness == pc = "loop_format" /\ calls["delay1000"] >= 2 /\ beginOk

\* C5: the stall loop is terminal and is entered only by a failed
\* initialisation: there the log holds the boot line and exactly one failure
\* line, watch.begin() was called once and is never called again, and every
\* step from the stall loop is one more delay(100) that changes nothing else.
C5_StallIsTerminal ==
    /\ [](calls["begin"] <= 1 /\ calls["log_fail"] <= 1)
    /\ [](pc \in StallPcs => BeginFailed)
    /\ [](pc = "stall" => /\ serial = <<BootLine, FailLine>>
                          /\ calls["begin"] = 1
                          /\ calls["log_fail"] = 1
                          /\ lastDelayMs \in {0, StallDelayMs})
    /\ [][pc = "stall" =>
            /\ pc' = "stall"
            /\ lastDelayMs' = StallDelayMs
            /\ \A s \in Sites \ {"delay100"} : calls'[s] = calls[s]
            /\ UNCHANGED <<serial, beginOk, psram, hasMotor, motorPulses, screen,
                           clock_label, now, buf, iterSteps>>]_vars

C5_Witness ==
    /\ pc = "stall"
    /\ lastDelayMs = StallDelayMs
    /\ calls["delay100"] = MaxCalls
    /\ serial = <<BootLine, FailLine>>

\* C6 as stated, read from the first formatting on and for readings whose
\* fields are 8-bit values: whatever the RTC returns, buf is null-terminated
\* and holds exactly HH:MM:SS.
C6_AlwaysHHMMSS ==
    (BufIsOfNow /\ ByteDate(now)) => (NullTerminated(buf) /\ IsHHMMSS(CStr(buf)))

\* C6, amended: buf is null-terminated in every state and holds at most 15
\* characters; it is empty until the first formatting; after a formatting it
\* is exactly HH:MM:SS, zero-padded, if and only if each value read is in
\* 0..99, and otherwise it is the full-width rendering cut to 15 characters.
C6_TerminatedAndHHMMSSIfTwoDigit ==
    /\ NullTerminated(buf)
    /\ Len(CStr(buf)) <= BufSize - 1
    /\ calls["snprintf"] = 0 => CStr(buf) = <<>>
    /\ BufIsOfNow =>
          /\ TwoDigitDate(now) => (IsHHMMSS(CStr(buf)) /\ CStr(buf) = HHMMSS(now))
          /\ ~TwoDigitDate(now) => ~IsHHMMSS(CStr(buf))
          /\ CStr(buf) = Take(FormatTime(now), BufSize - 1)

C6_Witness ==
    /\ pc = "loop_set_text"
    /\ now = Date(100, 5, 9)
    /\ CStr(buf) = <<"1", "0", "0", ":", "0", "5", ":", "0", "9">>

\* C7: the motor is pulsed at most once, for 30 ms: exactly once when
\* initialisation succeeded and a motor handle is present, never otherwise;
\* the pulse comes after the successful watch.begin() and before the label is
\* created, and loop() never repeats it.
C7_OnePulseAtMost ==
    /\ Len(motorPulses) <= 1
    /\ calls["onec"] = Len(motorPulses)
    /\ motorPulses # <<>> => (motorPulses = <<MotorPulseMs>> /\ beginOk /\ hasMotor)
    /\ (BeginFailed \/ ~hasMotor) => motorPulses = <<>>
    /\ pc \in {"boot", "begin", "psram", "motor"} => motorPulses = <<>>
    /\ (hasMotor /\ (pc \in {"clean", "create", "font", "center", "placeholder"}
                     \/ InLoop))
          => motorPulses = <<MotorPulseMs>>
    /\ (hasMotor /\ calls["create"] > 0) => motorPulses = <<MotorPulseMs>>

C7_Witness ==
    /\ pc = "loop_delay"
    /\ calls["delay1000"] >= 2
    /\ hasMotor
    /\ motorPulses = <<MotorPulseMs>>

\* C8: exactly one label is ever created: none exists before lv_label_create
\* and exactly one in every state after it; it is created after a successful
\* initialisation and before the first call of loop(), shows the placeholder
\* when loop() starts, and loop() changes nothing of it but its text.
C8_OneLabel ==
    /\ calls["create"] <= 1
    /\ Len(screen) = calls["create"]
    /\ clock_label = calls["create"]
    /\ calls["create"] = 1 => (beginOk /\ calls["clean"] = 1)
    /\ InLoop =>
          /\ calls["create"] = 1
          /\ calls["placeholder"] = 1
          /\ screen[clock_label].font = ClockFont
          /\ screen[clock_label].centered
          /\ calls["set_text"] = 0 => screen[clock_label].text = Placeholder

C8_Witness ==
    /\ pc = "loop_tick"
    /\ calls["set_text"] >= 2
    /\ Len(screen) = 1
    /\ clock_label = 1

\* C9: PSRAM and the motor do not change the control flow.  After a
\* successful initialisation the PSRAM statement is always followed by the
\* motor statement and that one by the screen clean, neither touching the
\* display; the stall loop is entered only by a failed initialisation; in all
\* four configurations loop() starts with the same single centred label
\* showing the placeholder; the only differences are the "PSRAM OK" line and
\* the one pulse.
C9_CapabilitiesDoNotBranch ==
    /\ [][pc = "psram" =>
            (pc' = "motor" /\ UNCHANGED <<screen, clock_label, now, buf, motorPulses>>)]_vars
    /\ [][pc = "motor" =>
            (pc' = "clean" /\ UNCHANGED <<screen, clock_label, now, buf, serial>>)]_vars
    /\ [](pc \in StallPcs => ~beginOk)
    /\ []((beginOk /\ pc \notin {"psram"}) =>
             /\ serial = <<BootLine>> \o (IF psram THEN <<PsramLine>> ELSE <<>>)
             /\ pc \notin {"motor"} =>
                   motorPulses = IF hasMotor THEN <<MotorPulseMs>> ELSE <<>>)
    /\ []((InLoop /\ calls["set_text"] = 0) =>
             screen = <<[text |-> Placeholder, font |-> ClockFont, centered |-> TRUE]>>)

C9_Witness ==
    /\ ~psram /\ ~hasMotor
    /\ pc = "loop_read"
    /\ calls["delay1000"] >= 1
    /\ serial = <<BootLine>>
    /\ motorPulses = <<>>

\* C10: the label text is replaced whole at each update: right after the
\* update, and until the next reading, it is the formatting (as stored in the
\* 16-byte buffer) of the value read in that call of loop(), with nothing of
\* the earlier text; the placeholder shows only from its setting to the first
\* update.
C10_LabelShowsCurrentReading ==
    InLoop =>
        LET text == screen[clock_label].text
        IN /\ (pc \in {"loop_tick", "loop_delay"}
               \/ (pc = "loop_read" /\ calls["set_text"] > 0))
                 => text = Take(FormatTime(now), BufSize - 1)
           /\ calls["set_text"] = 0 => text = Placeholder
           /\ calls["set_text"] > 0 => text # Placeholder

C10_Witness ==
    /\ pc = "loop_tick"
    /\ calls["set_text"] >= 2
    /\ now = Date(23, 59, 59)
    /\ screen[clock_label].text = <<"2", "3", ":", "5", "9", ":", "5", "9">>

====
